---- MODULE Spec2Model ----
(***************************************************************************)
(* Database Forge (src/database_forge.py): a SQLite store with the tables  *)
(* categories and products, seeded once with a fixed catalog and then      *)
(* reported on.  One behaviour of this module is a sequence of runs of     *)
(* main() against the same database file.  Prices are kept in integer      *)
(* cents (699.99 is 69999); an unset (None) primary key is NoneId.         *)
(***************************************************************************)
EXTENDS Integers, Sequences, FiniteSets, TLC

\* Number of consecutive runs of main() against the same database file.
MaxRuns == 3

\* Value of a primary-key attribute before the flush assigns it (None).
NoneId == 0

\* populate_sample_data: the literal category names, in insertion order.
categories_data ==
    << "Electronics", "Clothing", "Books", "Home & Garden", "Sports & Outdoors" >>

\* populate_sample_data: the literal (product_name, price, category_name) rows.
products_data ==
    << << "Smartphone", 69999, "Electronics" >>,
       << "Laptop", 129999, "Electronics" >>,
       << "Wireless Headphones", 14999, "Electronics" >>,
       << "Smart TV", 59999, "Electronics" >>,
       << "T-Shirt", 1999, "Clothing" >>,
       << "Jeans", 5999, "Clothing" >>,
       << "Running Shoes", 8999, "Clothing" >>,
       << "Winter Jacket", 12999, "Clothing" >>,
       << "Python Programming Book", 3999, "Books" >>,
       << "Data Science Handbook", 4999, "Books" >>,
       << "Science Fiction Novel", 1499, "Books" >>,
       << "Garden Hose", 2499, "Home & Garden" >>,
       << "Lawn Mower", 29999, "Home & Garden" >>,
       << "Plant Pot Set", 3499, "Home & Garden" >>,
       << "Basketball", 2999, "Sports & Outdoors" >>,
       << "Camping Tent", 15999, "Sports & Outdoors" >>,
       << "Yoga Mat", 2499, "Sports & Outdoors" >> >>

VARIABLES
    categories,           \* table categories: set of rows
    products,             \* table products: set of rows
    tables_exist,         \* Base.metadata.create_all has created the tables
    pc,                   \* position of the running main()
    session,              \* "none", "open" or "closed"
    existing_categories,  \* main: the count read before deciding to seed
    cat_objs,             \* populate_sample_data: the list categories
    prod_objs,            \* populate_sample_data: the list products
    error,                \* the exception main() logged and re-raised
    listed,               \* report: result of session.query(Category).all()
    by_category,          \* report: per category, item count and total value
    stats,                \* report: the overall statistics, <<>> until computed
    results,              \* report: the rows of the JOIN query
    report_started,       \* retrieve_and_display_data has been entered
    runs,                 \* number of runs of main() started so far
    first_counts          \* row counts when the first run ended, <<>> before

vars == << categories, products, tables_exist, pc, session, existing_categories,
           cat_objs, prod_objs, error, listed, by_category, stats, results,
           report_started, runs, first_counts >>

store == << categories, products, tables_exist >>
seeding == << cat_objs, prod_objs >>
report == << listed, by_category, stats, results >>

----------------------------------------------------------------------------
\* Helpers

Range(s) == { s[i] : i \in 1..Len(s) }

Ids(rows, field) == { r[field] : r \in rows }

SetMax(S) == CHOOSE x \in S : \A y \in S : y <= x

\* INTEGER PRIMARY KEY of SQLite: the next rowid is one more than the largest.
LastId(ids) == IF ids = {} THEN 0 ELSE SetMax(ids)

\* Row counts of the two tables.
Counts == << Cardinality(categories), Cardinality(products) >>

\* Variant of NeedsSeeding: the emptiness check is dropped.
NeedsSeedingAlways(n) == TRUE

\* main: seed only when the categories table is empty.
NeedsSeeding(n) == n = 0

\* Category(category_name=cat_name): the id is unset until the flush.
NewCategory(cat_name) == [ category_id |-> NoneId, category_name |-> cat_name ]

\* The flush of the pending categories: ids in insertion order.
FlushCategories(objs, table) ==
    [ i \in 1..Len(objs) |->
        [ objs[i] EXCEPT !.category_id = LastId(Ids(table, "category_id")) + i ] ]

\* unique=True on category_name: a pending name already stored, or twice pending.
UniqueViolation(objs, table) ==
    \/ \E i \in 1..Len(objs) : objs[i].category_name \in Ids(table, "category_name")
    \/ \E i, j \in 1..Len(objs) :
          i # j /\ objs[i].category_name = objs[j].category_name

\* category_map = {cat.category_name: cat for cat in categories}: the last
\* object of a name wins.
category_map(objs) ==
    [ n \in { objs[i].category_name : i \in 1..Len(objs) } |->
        objs[SetMax({ i \in 1..Len(objs) : objs[i].category_name = n })] ]

\* Variant of ResolveCategoryId: the id is taken one too high.
ResolveCategoryIdOffByOne(objs, cat_name) ==
    category_map(objs)[cat_name].category_id + 1

\* category_map[cat_name].category_id
ResolveCategoryId(objs, cat_name) == category_map(objs)[cat_name].category_id

\* Product(product_name=..., price=..., category_id=...)
NewProduct(row, objs) ==
    [ product_id |-> NoneId, product_name |-> row[1], price |-> row[2],
      category_id |-> ResolveCategoryId(objs, row[3]) ]

\* The flush of the pending products: ids in insertion order.
FlushProducts(objs, table) ==
    [ i \in 1..Len(objs) |->
        [ objs[i] EXCEPT !.product_id = LastId(Ids(table, "product_id")) + i ] ]

\* nullable=False on products.category_id.
NullViolation(objs) == \E i \in 1..Len(objs) : objs[i].category_id = NoneId

----------------------------------------------------------------------------
\* Report queries

RECURSIVE SumPrices(_)
\* sum(price[0] for price in average_price); also total_value of a category.
SumPrices(rows) ==
    IF rows = {} THEN 0
    ELSE LET r == CHOOSE x \in rows : TRUE
         IN  r.price + SumPrices(rows \ {r})

\* session.query(Product).filter_by(category_id=...).all()
ProductsInCategory(rows, id) == { p \in rows : p.category_id = id }

\* f"{x:.2f}" of the quotient num/den, in cents: rounded to the nearest cent.
Format2f(num, den) == (2 * num + den) \div (2 * den)

\* Variant of AveragePrice: the sum is divided by the number of categories.
AveragePricePerCategory(rows) == Format2f(SumPrices(rows), Cardinality(categories))

\* avg_price = sum(...) / len(average_price), as printed.
AveragePrice(rows) == Format2f(SumPrices(rows), Cardinality(rows))

\* Variant of MostExpensive: the order is ascending.
LeastFirst(rows) == { p \in rows : \A q \in rows : p.price <= q.price }

\* order_by(Product.price.desc()).first(): any row of the largest price.
MostExpensive(rows) == { p \in rows : \A q \in rows : q.price <= p.price }

\* order_by(Product.price.asc()).first(): any row of the smallest price.
LeastExpensive(rows) == { p \in rows : \A q \in rows : p.price <= q.price }

\* Variant of JoinCondition: the join is on the product's own id.
JoinOnProductId(p, c) == p.product_id = c.category_id

\* The ON clause of query(Product, Category).join(Category): the foreign key.
JoinCondition(p, c) == p.category_id = c.category_id

\* session.query(Product, Category).join(Category).all()
JoinRows(prods, cats) ==
    { pair \in prods \X cats : JoinCondition(pair[1], pair[2]) }

\* Variant of AfterReport: populate_sample_data is called after the report.
AfterReportPopulate == "add_categories"

\* main: what follows retrieve_and_display_data.
AfterReport == "close"

----------------------------------------------------------------------------
Init ==
    /\ categories = {}
    /\ products = {}
    /\ tables_exist = FALSE
    /\ pc = "start"
    /\ session = "none"
    /\ existing_categories = 0
    /\ cat_objs = << >>
    /\ prod_objs = << >>
    /\ error = "none"
    /\ listed = {}
    /\ by_category = << >>
    /\ stats = << >>
    /\ results = {}
    /\ report_started = FALSE
    /\ runs = 1
    /\ first_counts = << >>

\* The except clause of main: log the error and re-raise; the run ends here
\* and session.close() is not reached.
Raise(e) ==
    /\ error' = e
    /\ pc' = "failed"
    /\ first_counts' = IF runs = 1 THEN Counts ELSE first_counts

\* create_database() and Session(): create_all is a no-op on existing tables.
CreateDatabase ==
    /\ pc = "start"
    /\ \/ /\ tables_exist' = TRUE
          /\ session' = "open"
          /\ pc' = "count"
          /\ UNCHANGED << error, first_counts >>
       \/ /\ Raise("OperationalError")
          /\ UNCHANGED << tables_exist, session >>
    /\ UNCHANGED << categories, products, existing_categories, seeding, report,
                    report_started, runs >>

\* existing_categories = session.query(Category).count() and the branch on it.
CountCategories ==
    /\ pc = "count"
    /\ \E ok \in BOOLEAN :
          IF ok
          THEN /\ existing_categories' = Cardinality(categories)
               /\ pc' = IF NeedsSeeding(Cardinality(categories))
                        THEN "add_categories" ELSE "report"
               /\ UNCHANGED << error, first_counts >>
          ELSE /\ Raise("OperationalError")
               /\ UNCHANGED existing_categories
    /\ UNCHANGED << store, session, seeding, report, report_started, runs >>

\* One iteration of the loop over categories_data.
AddCategory ==
    /\ pc = "add_categories"
    /\ Len(cat_objs) < Len(categories_data)
    /\ cat_objs' = Append(cat_objs, NewCategory(categories_data[Len(cat_objs) + 1]))
    /\ UNCHANGED << store, pc, session, existing_categories, prod_objs, error,
                    report, report_started, runs, first_counts >>

\* Variant of CommitCategories: the commit between the two loops is left out.
CommitCategoriesDeferred ==
    /\ pc = "add_categories"
    /\ Len(cat_objs) = Len(categories_data)
    /\ pc' = "add_products"
    /\ UNCHANGED << store, session, existing_categories, seeding, error, report,
                    report_started, runs, first_counts >>

\* The first session.commit(): all pending categories or none.
CommitCategories ==
    /\ pc = "add_categories"
    /\ Len(cat_objs) = Len(categories_data)
    /\ IF UniqueViolation(cat_objs, categories)
       THEN /\ Raise("IntegrityError")
            /\ UNCHANGED << categories, cat_objs >>
       ELSE \E ok \in BOOLEAN :
            IF ok
            THEN /\ cat_objs' = FlushCategories(cat_objs, categories)
                 /\ categories' = categories \cup Range(cat_objs')
                 /\ pc' = "add_products"
                 /\ UNCHANGED << error, first_counts >>
            ELSE /\ Raise("OperationalError")
                 /\ UNCHANGED << categories, cat_objs >>
    /\ UNCHANGED << products, tables_exist, session, existing_categories,
                    prod_objs, report, report_started, runs >>

\* One iteration of the loop over products_data.
AddProduct ==
    /\ pc = "add_products"
    /\ Len(prod_objs) < Len(products_data)
    /\ prod_objs' = Append(prod_objs,
                           NewProduct(products_data[Len(prod_objs) + 1], cat_objs))
    /\ UNCHANGED << store, pc, session, existing_categories, cat_objs, error,
                    report, report_started, runs, first_counts >>

\* The second session.commit(): all pending products or none.  SQLite does
\* not check the foreign key (no PRAGMA foreign_keys), only NOT NULL.
CommitProducts ==
    /\ pc = "add_products"
    /\ Len(prod_objs) = Len(products_data)
    /\ IF NullViolation(prod_objs)
       THEN /\ Raise("IntegrityError")
            /\ UNCHANGED << products, prod_objs >>
       ELSE \E ok \in BOOLEAN :
            IF ok
            THEN /\ prod_objs' = FlushProducts(prod_objs, products)
                 /\ products' = products \cup Range(prod_objs')
                 /\ pc' = "report"
                 /\ UNCHANGED << error, first_counts >>
            ELSE /\ Raise("OperationalError")
                 /\ UNCHANGED << products, prod_objs >>
    /\ UNCHANGED << categories, tables_exist, session, existing_categories,
                    cat_objs, report, report_started, runs >>

\* retrieve_and_display_data: the query of all categories and their listing.
ReportCategories ==
    /\ pc = "report"
    /\ report_started' = TRUE
    /\ \E ok \in BOOLEAN :
          IF ok
          THEN /\ listed' = categories
               /\ pc' = "report_by_category"
               /\ UNCHANGED << error, first_counts >>
          ELSE /\ Raise("OperationalError")
               /\ UNCHANGED listed
    /\ UNCHANGED << store, session, existing_categories, seeding,
                    by_category, stats, results, runs >>

\* The loop over the categories: the products of each and their total value.
ReportProductsByCategory ==
    /\ pc = "report_by_category"
    /\ \E ok \in BOOLEAN :
          IF ok
          THEN /\ by_category' =
                     [ id \in Ids(listed, "category_id") |->
                         [ items |->
                             Cardinality(ProductsInCategory(products, id)),
                           total_value |->
                             SumPrices(ProductsInCategory(products, id)) ] ]
               /\ pc' = "report_stats"
               /\ UNCHANGED << error, first_counts >>
          ELSE /\ Raise("OperationalError")
               /\ UNCHANGED by_category
    /\ UNCHANGED << store, session, existing_categories, seeding, listed,
                    stats, results, report_started, runs >>

\* The overall statistics; the mean divides by the number of price rows,
\* with no branch for an empty table.  Any of the queries may fail.
ReportStatistics ==
    /\ pc = "report_stats"
    /\ IF products = {}
       THEN \E ok \in BOOLEAN :
            /\ Raise(IF ok THEN "ZeroDivisionError" ELSE "OperationalError")
            /\ UNCHANGED stats
       ELSE \/ /\ Raise("OperationalError")
               /\ UNCHANGED stats
            \/ \E hi \in MostExpensive(products), lo \in LeastExpensive(products) :
               /\ stats' = << [ total_products |-> Cardinality(products),
                                total_categories |-> Cardinality(categories),
                                avg_price |-> AveragePrice(products),
                                most_expensive |-> hi,
                                least_expensive |-> lo ] >>
               /\ pc' = "report_join"
               /\ UNCHANGED << error, first_counts >>
    /\ UNCHANGED << store, session, existing_categories, seeding, listed,
                    by_category, results, report_started, runs >>

\* The JOIN query and the detailed product list.
ReportJoin ==
    /\ pc = "report_join"
    /\ \E ok \in BOOLEAN :
          IF ok
          THEN /\ results' = JoinRows(products, categories)
               /\ pc' = AfterReport
               /\ UNCHANGED << error, first_counts >>
          ELSE /\ Raise("OperationalError")
               /\ UNCHANGED results
    /\ UNCHANGED << store, session, existing_categories, seeding, listed,
                    by_category, stats, report_started, runs >>

\* session.close() and the normal end of main.
CloseSession ==
    /\ pc = "close"
    /\ session' = "closed"
    /\ pc' = "done"
    /\ first_counts' = IF runs = 1 THEN Counts ELSE first_counts
    /\ UNCHANGED << store, existing_categories, seeding, error, report,
                    report_started, runs >>

\* The program is started again on the same database file: the store is
\* kept, everything in the process is new.
NewRun ==
    /\ pc \in { "done", "failed" }
    /\ runs < MaxRuns
    /\ runs' = runs + 1
    /\ pc' = "start"
    /\ session' = "none"
    /\ existing_categories' = 0
    /\ cat_objs' = << >>
    /\ prod_objs' = << >>
    /\ error' = "none"
    /\ listed' = {}
    /\ by_category' = << >>
    /\ stats' = << >>
    /\ results' = {}
    /\ report_started' = FALSE
    /\ UNCHANGED << store, first_counts >>

Next ==
    \/ CreateDatabase
    \/ CountCategories
    \/ AddCategory
    \/ CommitCategories
    \/ AddProduct
    \/ CommitProducts
    \/ ReportCategories
    \/ ReportProductsByCategory
    \/ ReportStatistics
    \/ ReportJoin
    \/ CloseSession
    \/ NewRun

Spec == Init /\ [][Next]_vars

----------------------------------------------------------------------------
\* Properties

\* The row counts of the fully seeded store.
SeedCounts == << Len(categories_data), Len(products_data) >>

\* The rows of the products table are those of products_data.
SeedProducts ==
    /\ Cardinality(products) = Len(products_data)
    /\ \A i \in 1..Len(products_data) :
          \E p \in products : /\ p.product_name = products_data[i][1]
                              /\ p.price = products_data[i][2]

\* A store that holds categories but not the full set of seed products.
HalfSeeded == categories # {} /\ Cardinality(products) # Len(products_data)

\* C1: seeding is idempotent.  A first run that completes leaves 5 categories
\* and 17 products; once the first run has ended with at least one category
\* stored, the row counts are the same in every state of every later run; and
\* a run that counted at least one category adds no object to the session.
Idempotent_C1 ==
    /\ (runs = 1 /\ pc = "done") => Counts = SeedCounts
    /\ (first_counts # << >> /\ first_counts[1] > 0) => Counts = first_counts
    /\ first_counts = SeedCounts => Counts = SeedCounts
    /\ existing_categories > 0 => (cat_objs = << >> /\ prod_objs = << >>)

Witness_C1 ==
    /\ runs >= 2
    /\ pc = "done"
    /\ existing_categories = Len(categories_data)
    /\ first_counts = SeedCounts
    /\ Counts = SeedCounts

\* C2: referential integrity in every reachable state: every row of products
\* has exactly one row of categories with its category_id.
ReferentialIntegrity_C2 ==
    \A p \in products :
        Cardinality({ c \in categories : c.category_id = p.category_id }) = 1

Witness_C2 ==
    /\ Cardinality(products) = Len(products_data)
    /\ pc = "report"
    /\ runs = 1

\* C3: whenever the product loop has been entered or a Product object exists,
\* the whole category batch is stored with its ids assigned, and every Product
\* object carries the id of a stored category.
CategoriesCommittedFirst_C3 ==
    (pc = "add_products" \/ prod_objs # << >>) =>
        /\ Len(cat_objs) = Len(categories_data)
        /\ \A i \in 1..Len(cat_objs) :
              /\ cat_objs[i].category_id # NoneId
              /\ cat_objs[i] \in categories
        /\ \A j \in 1..Len(prod_objs) :
              prod_objs[j].category_id \in Ids(categories, "category_id")

Witness_C3 ==
    /\ pc = "add_products"
    /\ Len(prod_objs) = 1
    /\ products = {}

\* C4 (as claimed): the report phase never runs against a half-seeded store,
\* in the run whose seeding failed or in any later run.
NoHalfSeededReport_C4 == report_started => ~HalfSeeded

\* C5 (as claimed): a run never ends, normally or by an error, with the
\* session still open.
SessionReleased_C5 == pc \in { "done", "failed" } => session # "open"

\* C6 (as claimed): the statistics on a store with no products never end in
\* a division by zero, and a result they give there is the zero result.
EmptyCatalogPolicy_C6 ==
    /\ error # "ZeroDivisionError"
    /\ (stats # << >> /\ products = {}) => stats[1].avg_price = 0

\* C7 (as claimed): the reported average price of the seeded catalog is 201.74.
AveragePrice_C7_AsClaimed ==
    (stats # << >> /\ SeedProducts) => stats[1].avg_price = 20174

\* C7 (amended): the 17 seed prices sum to 3729.83 and the reported average
\* price of the seeded catalog, that sum divided by 17 to two decimals, is
\* 219.40.
AveragePrice_C7 ==
    (stats # << >> /\ SeedProducts) =>
        /\ SumPrices(products) = 372983
        /\ stats[1].avg_price = 21940

Witness_C7 ==
    /\ stats # << >>
    /\ SeedProducts
    /\ pc = "report_join"

\* C8: the statistics computed in a run that seeded the empty store report
\* 17 products and 5 categories, Laptop at 1299.99 as the most expensive
\* product and Science Fiction Novel at 14.99 as the least expensive, these
\* being the largest and the smallest price of the table.
OverallStats_C8 ==
    (stats # << >> /\ existing_categories = 0) =>
        /\ stats[1].total_products = 17
        /\ stats[1].total_categories = 5
        /\ stats[1].most_expensive.product_name = "Laptop"
        /\ stats[1].most_expensive.price = 129999
        /\ stats[1].least_expensive.product_name = "Science Fiction Novel"
        /\ stats[1].least_expensive.price = 1499
        /\ stats[1].most_expensive \in products
        /\ stats[1].least_expensive \in products
        /\ \A p \in products : /\ p.price <= stats[1].most_expensive.price
                               /\ stats[1].least_expensive.price <= p.price

Witness_C8 ==
    /\ stats # << >>
    /\ existing_categories = 0
    /\ Len(prod_objs) = Len(products_data)
    /\ runs = 1

\* C9: once the JOIN query has run, its rows are exactly one pair per row of
\* products, each with the category of the product's category_id; on the
\* seeded store these are 17 pairs, every product of products_data with the
\* category name given for it there.
JoinedListing_C9 ==
    pc \in { "close", "done" } =>
        /\ \A p \in products :
              Cardinality({ r \in results : r[1] = p }) = 1
        /\ \A r \in results :
              /\ r[1] \in products
              /\ r[2] \in categories
              /\ r[2].category_id = r[1].category_id
        /\ SeedProducts =>
              /\ Cardinality(results) = Len(products_data)
              /\ \A i \in 1..Len(products_data) :
                    \E r \in results :
                        /\ r[1].product_name = products_data[i][1]
                        /\ r[2].category_name = products_data[i][3]

Witness_C9 ==
    /\ pc = "close"
    /\ SeedProducts
    /\ Cardinality(results) = Len(products_data)
    /\ \E r \in results : /\ r[1].product_name = "Smartphone"
                          /\ r[2].category_name = "Electronics"

\* C10: from the first report query until the run ends the two tables are
\* unchanged, no object is added to the session and the program is not in
\* the seeding code.
ReadOnlyReport_C10 ==
    [][ /\ report_started => UNCHANGED << categories, products >>
        /\ report_started' =>
              /\ UNCHANGED << categories, products, cat_objs, prod_objs >>
              /\ pc' \notin { "add_categories", "add_products" } ]_vars

Witness_C10 ==
    /\ report_started
    /\ pc = "done"
    /\ Len(prod_objs) = Len(products_data)
    /\ Cardinality(products) = Len(products_data)

====
